---------------------------- MODULE Spec2Model ----------------------------
(***************************************************************************)
(* The two client components of club-member-pages as one state machine.    *)
(*                                                                         *)
(*   UserPage (the detail view, the [slug] route's page): its four         *)
(*   useState cells, the route parameter, the pending useEffect run, and   *)
(*   every invocation of fetchUserPageContent with the await it is         *)
(*   suspended at.  An invocation closes over the slug of the render that  *)
(*   started it and is never cancelled.                                    *)
(*                                                                         *)
(*   HomePage (the list view, src/app/page.tsx): its three useState cells  *)
(*   and the single invocation of fetchUsers.                              *)
(*                                                                         *)
(* A step is what runs between two suspension points: React applies the    *)
(* setState calls made in one continuation together, so the render that    *)
(* follows a step sees all of them.                                        *)
(***************************************************************************)
EXTENDS Integers, Sequences, FiniteSets, TLC

VARIABLES
    slug,           \* UserPage: params.slug of the current render
    effectPending,  \* UserPage: the [slug] effect has not yet run for this slug
    htmlContent,    \* UserPage: useState('')
    cssContent,     \* UserPage: useState('')
    isLoading,      \* UserPage: useState(true)
    error,          \* UserPage: useState(null)
    tasks,          \* UserPage: the invocations of fetchUserPageContent
    userSlugs,      \* HomePage: useState([])
    homeIsLoading,  \* HomePage: useState(true)
    homeError,      \* HomePage: useState(null)
    homePc,         \* HomePage: where fetchUsers is
    homeFetches     \* HomePage: number of fetch('/user_list.json') calls made

userVars == <<slug, effectPending, htmlContent, cssContent, isLoading, error, tasks>>
homeVars == <<userSlugs, homeIsLoading, homeError, homePc, homeFetches>>
vars == <<slug, effectPending, htmlContent, cssContent, isLoading, error, tasks,
          userSlugs, homeIsLoading, homeError, homePc, homeFetches>>

----------------------------------------------------------------------------
(* Bounds *)

\* Invocations of fetchUserPageContent in one behaviour.
MaxTasks == 2

\* Longest identifier list the list resource serves.
MaxList == 2

----------------------------------------------------------------------------
(* Values *)

\* JavaScript null, as held by the two error cells.
Null == "<null>"

\* JavaScript truthiness of a string | null: null and '' are falsy.
Truthy(s) == s # Null /\ s # ""

\* Identifiers the route can carry; NoSlug is the absent / empty parameter.
Slugs == {"x", "y"}
NoSlug == ""

\* The message of an error a rejected promise carries (fetch's TypeError, a
\* body read failure, JSON.parse's SyntaxError); it may be empty.
RejectMessages == {"", "Failed to fetch"}

----------------------------------------------------------------------------
(* UserPage: pure parts *)

HtmlPath(s) == "/user_pages/" \o s \o "/index.html"

CssPath(s) == "/user_pages/" \o s \o "/style.css"

\* The message texts are the source's Japanese texts put into English.
\* The Error thrown on a non-ok markup response ("HTML file not found: <path>").
HtmlNotFound(s) == "HTML file not found: " \o HtmlPath(s)

\* The text setError receives in the catch block:
\* "Failed to load page content: " + (err.message || "unknown error").
LoadError(m) ==
    "Failed to load page content: " \o (IF m # "" THEN m ELSE "unknown error")

\* The body the static file server sends for a successful request.
MarkupOf(s) == "<html " \o s \o ">"

StylesheetOf(s) == "." \o s \o " {}"

Task(s, pc, fetched) == [slug |-> s, pc |-> pc, fetched |-> fetched]

TaskIds == 1..Len(tasks)

Awaiting == {"awaitHtml", "awaitHtmlText", "awaitCss", "awaitCssText"}

\* "returned": the try block ran to its end; "caught": the catch block ran.
Finished == {"returned", "caught"}

\* Faulty variant of UserPageRender: the `if (error)` branch is missing.
UserPageRenderNoErrorBranch ==
    IF isLoading
    THEN [view |-> "loading", message |-> "", style |-> "", html |-> ""]
    ELSE [view |-> "content", message |-> "", style |-> cssContent, html |-> htmlContent]

\* What the component returns for the current state.
UserPageRender ==
    IF isLoading
    THEN [view |-> "loading", message |-> "", style |-> "", html |-> ""]
    ELSE IF Truthy(error)
         THEN [view |-> "error", message |-> error, style |-> "", html |-> ""]
         ELSE [view |-> "content", message |-> "", style |-> cssContent, html |-> htmlContent]

----------------------------------------------------------------------------
(* UserPage: steps *)

UserInit ==
    /\ slug \in Slugs \cup {NoSlug}
    /\ effectPending = TRUE
    /\ htmlContent = ""
    /\ cssContent = ""
    /\ isLoading = TRUE
    /\ error = Null
    /\ tasks = <<>>

\* The route parameter changes; the component re-renders with its state kept
\* and the effect is scheduled because its dependency changed.
ChangeSlug(s) ==
    /\ ~effectPending
    /\ s # slug
    /\ Len(tasks) < MaxTasks
    /\ slug' = s
    /\ effectPending' = TRUE
    /\ UNCHANGED <<htmlContent, cssContent, isLoading, error, tasks>>
    /\ UNCHANGED homeVars

\* Faulty variant of RunEffect: both requests are issued at once.
RunEffectBothRequests ==
    /\ effectPending
    /\ effectPending' = FALSE
    /\ IF slug = NoSlug
       THEN /\ isLoading' = FALSE
            /\ UNCHANGED <<error, tasks>>
       ELSE /\ isLoading' = TRUE
            /\ error' = Null
            /\ tasks' = Append(tasks, Task(slug, "awaitHtml", <<HtmlPath(slug), CssPath(slug)>>))
    /\ UNCHANGED <<slug, htmlContent, cssContent>>
    /\ UNCHANGED homeVars

\* Faulty variant of RunEffect: the `if (!slug)` guard is missing.
RunEffectNoGuard ==
    /\ effectPending
    /\ effectPending' = FALSE
    /\ isLoading' = TRUE
    /\ error' = Null
    /\ tasks' = Append(tasks, Task(slug, "awaitHtml", <<HtmlPath(slug)>>))
    /\ UNCHANGED <<slug, htmlContent, cssContent>>
    /\ UNCHANGED homeVars

\* The effect body, up to the first await of fetchUserPageContent.
RunEffect ==
    /\ effectPending
    /\ effectPending' = FALSE
    /\ IF slug = NoSlug
       THEN /\ isLoading' = FALSE
            /\ UNCHANGED <<error, tasks>>
       ELSE /\ isLoading' = TRUE
            /\ error' = Null
            /\ tasks' = Append(tasks, Task(slug, "awaitHtml", <<HtmlPath(slug)>>))
    /\ UNCHANGED <<slug, htmlContent, cssContent>>
    /\ UNCHANGED homeVars

\* Faulty variant of Catch: the finally block is missing.
CatchNoFinally(i, m) ==
    /\ error' = LoadError(m)
    /\ tasks' = [tasks EXCEPT ![i].pc = "caught"]
    /\ UNCHANGED <<slug, effectPending, htmlContent, cssContent, isLoading>>
    /\ UNCHANGED homeVars

\* catch and finally, for the error message m.
Catch(i, m) ==
    /\ error' = LoadError(m)
    /\ isLoading' = FALSE
    /\ tasks' = [tasks EXCEPT ![i].pc = "caught"]
    /\ UNCHANGED <<slug, effectPending, htmlContent, cssContent>>
    /\ UNCHANGED homeVars

\* The markup response arrives with a success status.
HtmlResponseOk(i) ==
    /\ tasks[i].pc = "awaitHtml"
    /\ tasks' = [tasks EXCEPT ![i].pc = "awaitHtmlText"]
    /\ UNCHANGED <<slug, effectPending, htmlContent, cssContent, isLoading, error>>
    /\ UNCHANGED homeVars

\* The markup response arrives with a non-success status.
HtmlResponseNotOk(i) ==
    /\ tasks[i].pc = "awaitHtml"
    /\ Catch(i, HtmlNotFound(tasks[i].slug))

\* The markup body is read; the stylesheet request is issued.
HtmlTextOk(i) ==
    /\ tasks[i].pc = "awaitHtmlText"
    /\ htmlContent' = MarkupOf(tasks[i].slug)
    /\ tasks' = [tasks EXCEPT ![i].pc = "awaitCss",
                              ![i].fetched = Append(@, CssPath(tasks[i].slug))]
    /\ UNCHANGED <<slug, effectPending, cssContent, isLoading, error>>
    /\ UNCHANGED homeVars

\* The stylesheet response arrives with a success status.
CssResponseOk(i) ==
    /\ tasks[i].pc = "awaitCss"
    /\ tasks' = [tasks EXCEPT ![i].pc = "awaitCssText"]
    /\ UNCHANGED <<slug, effectPending, htmlContent, cssContent, isLoading, error>>
    /\ UNCHANGED homeVars

\* The stylesheet response arrives with a non-success status.
CssResponseNotOk(i) ==
    /\ tasks[i].pc = "awaitCss"
    /\ cssContent' = ""
    /\ isLoading' = FALSE
    /\ tasks' = [tasks EXCEPT ![i].pc = "returned"]
    /\ UNCHANGED <<slug, effectPending, htmlContent, error>>
    /\ UNCHANGED homeVars

\* The stylesheet body is read.
CssTextOk(i) ==
    /\ tasks[i].pc = "awaitCssText"
    /\ cssContent' = StylesheetOf(tasks[i].slug)
    /\ isLoading' = FALSE
    /\ tasks' = [tasks EXCEPT ![i].pc = "returned"]
    /\ UNCHANGED <<slug, effectPending, htmlContent, error>>
    /\ UNCHANGED homeVars

\* The promise the invocation awaits is rejected with an error of message m.
Reject(i, m) ==
    /\ tasks[i].pc \in Awaiting
    /\ Catch(i, m)

UserNext ==
    \/ \E s \in Slugs \cup {NoSlug} : ChangeSlug(s)
    \/ RunEffect
    \/ \E i \in TaskIds : HtmlResponseOk(i)
    \/ \E i \in TaskIds : HtmlResponseNotOk(i)
    \/ \E i \in TaskIds : HtmlTextOk(i)
    \/ \E i \in TaskIds : CssResponseOk(i)
    \/ \E i \in TaskIds : CssResponseNotOk(i)
    \/ \E i \in TaskIds : CssTextOk(i)
    \/ \E i \in TaskIds, m \in RejectMessages : Reject(i, m)

----------------------------------------------------------------------------
(* HomePage: pure parts *)

\* The Error thrown on a non-ok list response.
ListNotFound == "Failed to load the user list. Check that the file exists."

\* The fallback of `err.message || ...` in fetchUsers' catch block.
ListUnknownError == "An unknown error occurred while loading the user list."

\* Faulty variant of ListError: the `|| ...` fallback is missing.
ListErrorNoFallback(m) == m

\* The text setError receives in fetchUsers' catch block.
ListError(m) == IF m # "" THEN m ELSE ListUnknownError

\* A parsed JSON body.  response.json() resolves with whatever the body
\* parses to; the annotation UserSlug[] is erased at run time.
JsonValue(kind, items) == [kind |-> kind, items |-> items]

RECURSIVE SeqsUpTo(_, _)
SeqsUpTo(S, n) ==
    IF n = 0 THEN {<<>>}
    ELSE LET shorter == SeqsUpTo(S, n - 1)
         IN  shorter \cup {Append(q, e) : q \in shorter, e \in S}

\* Identifiers the list resource may name.
ListSlugs == {"a", "b"}

JsonArrays == {JsonValue("array", q) : q \in SeqsUpTo(ListSlugs, MaxList)}

\* Bodies that parse, but not to an array: null, an object, a number.
JsonNonArrays == {JsonValue(k, <<>>) : k \in {"null", "object", "number"}}

JsonValues == JsonArrays \cup JsonNonArrays

DetailHref(s) == "/users/" \o s

\* Faulty variant of Links: the entries come out in reverse order.
LinksReversed(items) ==
    [i \in 1..Len(items) |->
        [href |-> DetailHref(items[Len(items) + 1 - i]), label |-> items[Len(items) + 1 - i]]]

\* userSlugs.map(...): one Link per element, in order.
Links(items) == [i \in 1..Len(items) |-> [href |-> DetailHref(items[i]), label |-> items[i]]]

HomeView(view, message, links) == [view |-> view, message |-> message, links |-> links]

\* Faulty variant of HomeRender: the `length === 0` branch is missing.
HomeRenderNoEmptyBranch ==
    IF homeIsLoading THEN HomeView("loading", "", <<>>)
    ELSE IF Truthy(homeError) THEN HomeView("error", homeError, <<>>)
    ELSE IF userSlugs.kind # "array" THEN HomeView("crash", "", <<>>)
    ELSE HomeView("list", "", Links(userSlugs.items))

\* What the component returns for the current state.  Reading .length of
\* null, or calling .map on a value that has none, throws during render.
HomeRender ==
    IF homeIsLoading THEN HomeView("loading", "", <<>>)
    ELSE IF Truthy(homeError) THEN HomeView("error", homeError, <<>>)
    ELSE IF userSlugs.kind # "array" THEN HomeView("crash", "", <<>>)
    ELSE IF Len(userSlugs.items) = 0 THEN HomeView("empty", "", <<>>)
    ELSE HomeView("list", "", Links(userSlugs.items))

----------------------------------------------------------------------------
(* HomePage: steps *)

HomeInit ==
    /\ userSlugs = JsonValue("array", <<>>)
    /\ homeIsLoading = TRUE
    /\ homeError = Null
    /\ homePc = "mounted"
    /\ homeFetches = 0

\* Faulty variant of HomeEffect: the effect has no dependency array and runs
\* again after the render that follows fetchUsers' end.
HomeEffectEveryRender ==
    /\ homePc \in {"mounted", "returned", "caught"}
    /\ homeFetches < 2
    /\ homePc' = "awaitFetch"
    /\ homeFetches' = homeFetches + 1
    /\ UNCHANGED <<userSlugs, homeIsLoading, homeError>>
    /\ UNCHANGED userVars

\* The [] effect runs once after mount: fetchUsers up to its first await.
HomeEffect ==
    /\ homePc = "mounted"
    /\ homePc' = "awaitFetch"
    /\ homeFetches' = homeFetches + 1
    /\ UNCHANGED <<userSlugs, homeIsLoading, homeError>>
    /\ UNCHANGED userVars

\* catch and finally of fetchUsers, for the error message m.
HomeCatch(m) ==
    /\ homeError' = ListError(m)
    /\ homeIsLoading' = FALSE
    /\ homePc' = "caught"
    /\ UNCHANGED <<userSlugs, homeFetches>>
    /\ UNCHANGED userVars

\* The list response arrives with a success status.
ListResponseOk ==
    /\ homePc = "awaitFetch"
    /\ homePc' = "awaitJson"
    /\ UNCHANGED <<userSlugs, homeIsLoading, homeError, homeFetches>>
    /\ UNCHANGED userVars

\* The list response arrives with a non-success status.
ListResponseNotOk ==
    /\ homePc = "awaitFetch"
    /\ HomeCatch(ListNotFound)

\* The body parses to the value v.
ListJsonOk(v) ==
    /\ homePc = "awaitJson"
    /\ userSlugs' = v
    /\ homeIsLoading' = FALSE
    /\ homePc' = "returned"
    /\ UNCHANGED <<homeError, homeFetches>>
    /\ UNCHANGED userVars

\* fetch or response.json() is rejected with an error of message m.
ListReject(m) ==
    /\ homePc \in {"awaitFetch", "awaitJson"}
    /\ HomeCatch(m)

HomeNext ==
    \/ HomeEffect
    \/ ListResponseOk
    \/ ListResponseNotOk
    \/ \E v \in JsonValues : ListJsonOk(v)
    \/ \E m \in RejectMessages : ListReject(m)

----------------------------------------------------------------------------
(* The application *)

Init == UserInit /\ HomeInit

Next == UserNext \/ HomeNext

Spec == Init /\ [][Next]_vars

----------------------------------------------------------------------------
(* Helpers of the properties *)

Range(q) == {q[k] : k \in DOMAIN q}

\* Invocation i is the one the last effect run started, for the slug of the
\* current render.
Current(i) == i = Len(tasks) /\ ~effectPending /\ tasks[i].slug = slug

\* Invocation i resumed in this step.
Resumed(i) == i \in DOMAIN tasks' /\ tasks'[i] # tasks[i]

ContentView(html, style) == [view |-> "content", message |-> "", style |-> style, html |-> html]

ErrorView(message) == [view |-> "error", message |-> message, style |-> "", html |-> ""]

----------------------------------------------------------------------------
(* UserPage: properties *)

\* C1 (as claimed): once the active identifier differs from the one an
\* invocation was started for, a step of that invocation changes none of the
\* view's markup, stylesheet, error and loading state.
StaleResponseDiscarded ==
    [][\A i \in TaskIds :
          (slug \in Slugs /\ tasks[i].slug # slug /\ Resumed(i))
              => UNCHANGED <<htmlContent, cssContent, error, isLoading>>]_vars

\* C2 (as claimed): when the stylesheet response of the current identifier's
\* invocation has a non-success status, the view becomes ready, showing that
\* identifier's markup with an empty stylesheet.
StylesheetMissingRendersMarkup ==
    [][\A i \in TaskIds :
          (Current(i) /\ CssResponseNotOk(i))
              => UserPageRender' = ContentView(MarkupOf(slug), "")]_vars

\* C3: a non-success markup response for the active identifier puts the view
\* in the error rendering, with the message naming that identifier's markup
\* path; and while the identifier stays the same an error rendering is never
\* followed by any other rendering, whatever markup text is held.
MarkupFailureIsFatal ==
    [][/\ \A i \in TaskIds :
            (tasks[i].slug = slug /\ HtmlResponseNotOk(i))
                => UserPageRender' =
                     ErrorView("Failed to load page content: HTML file not found: "
                               \o "/user_pages/" \o slug \o "/index.html")
       /\ (UserPageRender.view = "error" /\ ~effectPending /\ slug' = slug)
            => UserPageRender'.view = "error"]_vars

\* C3 witness: the active identifier's markup request failed while markup
\* text of an earlier identifier is held; the error is what is rendered.
MarkupFailureWitness ==
    \E i \in TaskIds :
        /\ Current(i)
        /\ tasks[i].pc = "caught"
        /\ tasks[i].fetched = <<HtmlPath(slug)>>
        /\ error = LoadError(HtmlNotFound(slug))
        /\ htmlContent # ""
        /\ UserPageRender.view = "error"

\* C4 (as claimed): with a single identifier and a single invocation, once the
\* markup has been read the view ends ready however the stylesheet request ends.
ReadyWhateverStylesheetOutcome ==
    [][\A i \in TaskIds :
          (/\ Len(tasks) = 1
           /\ Current(i)
           /\ tasks[i].pc \in {"awaitCss", "awaitCssText"}
           /\ Resumed(i)
           /\ tasks'[i].pc \in Finished)
              => UserPageRender'.view = "content"]_vars

LoadingWhileOutstanding ==
    \A i \in TaskIds :
        (Current(i) /\ tasks[i].pc \in Awaiting) => UserPageRender.view = "loading"

----------------------------------------------------------------------------
(* HomePage: properties *)

\* C7: when the body parses to a sequence of identifiers, the view is no
\* longer loading and, for a non-empty sequence, renders the list with one
\* link per element, in order, each to "/users/<identifier>".
ListRendersEveryEntry ==
    [][\A v \in JsonArrays :
          ListJsonOk(v)
              => LET r == HomeRender'
                 IN  /\ r.view = (IF v.items = <<>> THEN "empty" ELSE "list")
                     /\ Len(r.links) = Len(v.items)
                     /\ \A k \in 1..Len(v.items) :
                            /\ r.links[k].href = "/users/" \o v.items[k]
                            /\ r.links[k].label = v.items[k]]_vars

\* C7 witness: a two-element list has been stored and is rendered.
ListRenderedWitness ==
    /\ homePc = "returned"
    /\ userSlugs = JsonValue("array", <<"b", "a">>)
    /\ HomeRender.view = "list"

\* C8: after a successful response with zero entries the view renders the
\* empty-state message and the error cell is still null.
EmptyListIsNotAnError ==
    (homePc = "returned" /\ userSlugs = JsonValue("array", <<>>))
        => (HomeRender = HomeView("empty", "", <<>>) /\ homeError = Null)

\* C8 witness: the empty list has been stored.
EmptyListWitness ==
    /\ homePc = "returned"
    /\ userSlugs = JsonValue("array", <<>>)
    /\ ~homeIsLoading

\* C9: after a non-success status, a rejection or a parse failure the view
\* renders the error state with a non-empty message and no list entry.
ListFailureShowsMessage ==
    homePc = "caught"
        => /\ HomeRender.view = "error"
           /\ HomeRender.message \notin {"", Null}
           /\ HomeRender.links = <<>>
           /\ ~homeIsLoading

\* C9 witness: the error carried no message and the fallback text is shown.
ListFailureWitness ==
    /\ homePc = "caught"
    /\ homeError = ListUnknownError
    /\ HomeRender.view = "error"

\* C10 (as claimed): a body that parses to something other than a sequence
\* never leaves the view out of loading with that value held and no error shown.
MalformedListFails ==
    (~homeIsLoading /\ userSlugs.kind # "array") => HomeRender.view = "error"

----------------------------------------------------------------------------
(* HomePage: the state machine *)

\* loading | failed | ready, as the render distinguishes them.
HomeState ==
    IF homeIsLoading THEN "loading"
    ELSE IF Truthy(homeError) THEN "failed"
    ELSE "ready"

\* C11: the list request is issued exactly once, by the effect; the view
\* leaves loading only for ready or failed, and once it has left loading its
\* state, the stored list, the error and the number of requests never change.
ListFetchedOnce ==
    [][/\ homeFetches' = (IF homePc' = "mounted" THEN 0 ELSE 1)
       /\ (HomeState = "loading" /\ HomeState' # "loading")
            => (homePc \in {"awaitFetch", "awaitJson"} /\ homeFetches = 1)
       /\ HomeState # "loading"
            => /\ HomeState' = HomeState
               /\ UNCHANGED <<userSlugs, homeError, homeFetches>>]_vars

\* C11 witness: the list view has failed after its one request, and the
\* application has gone on (a detail view has loaded since).
ListFetchedOnceWitness ==
    /\ HomeState = "failed"
    /\ homeFetches = 1
    /\ \E i \in TaskIds : tasks[i].pc = "returned"

----------------------------------------------------------------------------
(* UserPage: retries, identifier changes, termination *)

\* Every invocation has finished.
AllFinished == \A k \in TaskIds : tasks[k].pc \in Finished

\* C12 (as claimed): an invocation issues at most one markup and one
\* stylesheet request, an invocation is started only by an effect run, and
\* while the view is failed and the identifier stays the same the view stays
\* failed, no invocation is started and no request is issued.
NoRequestOnceFailed ==
    [][/\ \A i \in DOMAIN tasks' :
            /\ Len(tasks'[i].fetched) <= 2
            /\ Cardinality(Range(tasks'[i].fetched)) = Len(tasks'[i].fetched)
       /\ Len(tasks') # Len(tasks) => (effectPending /\ Len(tasks') = Len(tasks) + 1)
       /\ (UserPageRender.view = "error" /\ ~effectPending /\ slug' = slug)
            => /\ UserPageRender'.view = "error"
               /\ Len(tasks') = Len(tasks)
               /\ \A i \in TaskIds : tasks'[i].fetched = tasks[i].fetched]_vars


\* C13 (as claimed): when the invocation for the active identifier reads its
\* stylesheet, after its markup, and every earlier invocation has ended,
\* whatever its outcome, the view is ready showing the active identifier's
\* markup and stylesheet.
ReadyForActiveIdentifier ==
    [][\A i \in TaskIds :
          (/\ Current(i)
           /\ CssTextOk(i)
           /\ \A k \in TaskIds \ {i} : tasks[k].pc \in Finished)
              => UserPageRender' = ContentView(MarkupOf(slug), StylesheetOf(slug))]_vars


----------------------------------------------------------------------------
(* Identifier changes that never overlap a fetch *)

\* The route parameter changes while no invocation is in flight.
ChangeSlugIdle(s) == AllFinished /\ ~effectPending /\ ChangeSlug(s)

NextNoOverlap ==
    \/ \E s \in Slugs \cup {NoSlug} : ChangeSlugIdle(s)
    \/ RunEffect
    \/ \E i \in TaskIds : HtmlResponseOk(i)
    \/ \E i \in TaskIds : HtmlResponseNotOk(i)
    \/ \E i \in TaskIds : HtmlTextOk(i)
    \/ \E i \in TaskIds : CssResponseOk(i)
    \/ \E i \in TaskIds : CssResponseNotOk(i)
    \/ \E i \in TaskIds : CssTextOk(i)
    \/ \E i \in TaskIds, m \in RejectMessages : Reject(i, m)
    \/ HomeNext

SpecNoOverlap == Init /\ [][NextNoOverlap]_vars

\* C14 (as claimed): whenever the view renders content for an identifier,
\* neither the markup nor the stylesheet it shows is the one served for
\* another identifier.
NoOtherIdentifierRendered ==
    (UserPageRender.view = "content" /\ slug \in Slugs)
        => /\ UserPageRender.html \notin {MarkupOf(s) : s \in Slugs \ {slug}}
           /\ UserPageRender.style \notin {StylesheetOf(s) : s \in Slugs \ {slug}}

----------------------------------------------------------------------------
(* Termination *)

\* Invocation i resumes: the promise it awaits is settled.
TaskStep(i) ==
    /\ i \in TaskIds
    /\ \/ HtmlResponseOk(i)
       \/ HtmlResponseNotOk(i)
       \/ HtmlTextOk(i)
       \/ CssResponseOk(i)
       \/ CssResponseNotOk(i)
       \/ CssTextOk(i)
       \/ \E m \in RejectMessages : Reject(i, m)

\* A scheduled effect runs, and every request is eventually answered.  The
\* route may stop changing at any time.
SpecFair ==
    /\ Init
    /\ [][Next]_vars
    /\ WF_vars(RunEffect)
    /\ \A i \in 1..MaxTasks : WF_vars(TaskStep(i))

\* C15: once every invocation has ended and no effect run is pending the view
\* is not loading; and the view is eventually, and from then on, out of
\* loading (rendering content or the error).
LeavesLoading ==
    /\ []((AllFinished /\ ~effectPending) => UserPageRender.view \in {"content", "error"})
    /\ <>[](UserPageRender.view \in {"content", "error"})

\* C15 witness: two invocations have ended, the first in the catch block, and
\* the view is out of loading.
LeavesLoadingWitness ==
    /\ Len(tasks) = 2
    /\ AllFinished
    /\ ~effectPending
    /\ tasks[1].pc = "caught"
    /\ UserPageRender.view \in {"content", "error"}

----------------------------------------------------------------------------
(* The absent identifier *)

\* C16: when the effect runs with no identifier it starts no invocation (so
\* issues no request), the view is out of loading afterwards, and the held
\* markup text, stylesheet text and error are unchanged.
NoIdentifierNoRequest ==
    [][(effectPending /\ ~effectPending' /\ slug = NoSlug)
          => /\ tasks' = tasks
             /\ isLoading' = FALSE
             /\ UserPageRender'.view # "loading"
             /\ UNCHANGED <<htmlContent, cssContent, error>>]_vars

\* C16 witness: the effect has run with no identifier while the texts of a
\* previously shown identifier are held.
NoIdentifierWitness ==
    /\ slug = NoSlug
    /\ ~effectPending
    /\ ~isLoading
    /\ htmlContent = MarkupOf("x")
    /\ cssContent = StylesheetOf("x")
    /\ Len(tasks) = 1

============================================================================
